---- MODULE Spec2Model ----
(***************************************************************************)
(* The uwsgi daemon commands of tools/pytools.py: start, stop and the      *)
(* liveness check _is_uwsgi_running, run against a process table and the   *)
(* PID file pyenv/var/uwsgi.pid.                                           *)
(*                                                                         *)
(* The controller is single threaded: one command runs at a time.  The     *)
(* operating system is the environment: any process may die at any time,   *)
(* and a free PID may be taken by a process that is not the daemon, which  *)
(* the invoking user may or may not be allowed to signal.                  *)
(*                                                                         *)
(* The daemon is launched by `uwsgi --ini conf/uwsgi.conf --daemonize`;    *)
(* the code never writes the PID file itself.  The model takes the daemon  *)
(* to run as the invoking user and to have recorded its own PID in         *)
(* uwsgi.pid by the time the launch command returns 0.                     *)
(***************************************************************************)
EXTENDS Integers, FiniteSets, Sequences, TLC

\* Bounds of the model
MaxPid == 2
Timeout == 2
MaxPolls == Timeout + 1

Pids == 1..MaxPid

\* Contents of the PID file: no file, a PID, or text int() rejects
NoFile == 0
Garbage == -1

VARIABLES
    pidfile,    \* NoFile, Garbage, or the PID written in uwsgi.pid
    alive,      \* PIDs of the processes that exist
    daemons,    \* PIDs of the live uwsgi daemons launched by start
    denied,     \* live processes the invoking user may not signal
    quitting,   \* live processes that have received SIGQUIT
    pc,         \* "idle", or the position inside StopCommand.impl
    pid,        \* StopCommand.impl's local pid
    prev,       \* the command invoked before the last one, and its outcome
    cmd,        \* the last command invoked
    pre,        \* what the PID file named when that command began
    result,     \* its outcome: the end_msg text or the exception raised
    spawned,    \* PID of the daemon that command launched, 0 if none
    nquit,      \* SIGQUITs the current stop has delivered
    polls,      \* liveness probes of the current stop that found the process
    spin,       \* flips at every iteration of stop's polling loop
    launches,   \* exit codes of the uwsgi launches the last command ran
    \* the setup and sdists commands
    hooks,      \* the setup_*_hook options the wscript defines
    tcmd,       \* "none", "setup" or "sdists": the command last invoked
    at,         \* the step it is about to run, or "idle", "done", "failed"
    log,        \* the steps it has run so far, in order
    raised,     \* the step that raised, or "none"
    inHook,     \* TRUE while the setup_pip_hook callable is running
    force,      \* pyd.force_pyenv_install_download
    oldForce,   \* SyncSdistsCommand.impl's old_force_pyenv_install_download
    installs,   \* pyenv_install calls the running pip hook has made
    pip         \* the last pyenv_install call: its inputs and what it ran

daemonVars == <<pidfile, alive, daemons, denied, quitting, pc, pid, prev, cmd,
                pre, result, spawned, nquit, polls, spin, launches>>

toolVars == <<hooks, tcmd, at, log, raised, inHook, force, oldForce,
              installs, pip>>

vars == <<daemonVars, toolVars>>

procs == <<alive, daemons, denied, quitting>>

\* os.kill(p, sig): the errno it raises, or "OK"
Kill(p, al, dn) ==
    IF p \notin al THEN "ESRCH"
    ELSE IF p \in dn THEN "EPERM"
    ELSE "OK"

\* _is_uwsgi_running without `running = True` after a successful probe
is_running_FlagNotSet(pf, al, dn) ==
    IF pf = NoFile THEN [raised |-> FALSE, running |-> FALSE, pidfile |-> pf]
    ELSE IF pf = Garbage THEN [raised |-> TRUE, running |-> FALSE, pidfile |-> pf]
    ELSE IF Kill(pf, al, dn) = "OK"
         THEN [raised |-> FALSE, running |-> FALSE, pidfile |-> pf]
         ELSE [raised |-> FALSE, running |-> FALSE, pidfile |-> NoFile]

\* _is_uwsgi_running with the bodies of try and except exchanged
is_running_Swapped(pf, al, dn) ==
    IF pf = NoFile THEN [raised |-> FALSE, running |-> FALSE, pidfile |-> pf]
    ELSE IF pf = Garbage THEN [raised |-> TRUE, running |-> FALSE, pidfile |-> pf]
    ELSE IF Kill(pf, al, dn) = "OK"
         THEN [raised |-> FALSE, running |-> FALSE, pidfile |-> NoFile]
         ELSE [raised |-> FALSE, running |-> TRUE, pidfile |-> pf]

\* _is_uwsgi_running without os.unlink(pidfile) in the except clause
is_running_NoUnlink(pf, al, dn) ==
    IF pf = NoFile THEN [raised |-> FALSE, running |-> FALSE, pidfile |-> pf]
    ELSE IF pf = Garbage THEN [raised |-> TRUE, running |-> FALSE, pidfile |-> pf]
    ELSE IF Kill(pf, al, dn) = "OK"
         THEN [raised |-> FALSE, running |-> TRUE, pidfile |-> pf]
         ELSE [raised |-> FALSE, running |-> FALSE, pidfile |-> pf]

\* _is_uwsgi_running taking a PID file int() rejects for a missing one
is_running_GarbageAbsent(pf, al, dn) ==
    IF pf = NoFile \/ pf = Garbage
    THEN [raised |-> FALSE, running |-> FALSE, pidfile |-> pf]
    ELSE IF Kill(pf, al, dn) = "OK"
         THEN [raised |-> FALSE, running |-> TRUE, pidfile |-> pf]
         ELSE [raised |-> FALSE, running |-> FALSE, pidfile |-> NoFile]

\* _is_uwsgi_running with `raise` in place of os.unlink(pidfile)
is_running_RaiseOnStale(pf, al, dn) ==
    IF pf = NoFile THEN [raised |-> FALSE, running |-> FALSE, pidfile |-> pf]
    ELSE IF pf = Garbage THEN [raised |-> TRUE, running |-> FALSE, pidfile |-> pf]
    ELSE IF Kill(pf, al, dn) = "OK"
         THEN [raised |-> FALSE, running |-> TRUE, pidfile |-> pf]
         ELSE [raised |-> TRUE, running |-> FALSE, pidfile |-> pf]

\* _is_uwsgi_running: the value returned (or ValueError from int()) and the
\* PID file it leaves behind
_is_uwsgi_running(pf, al, dn) ==
    IF pf = NoFile THEN [raised |-> FALSE, running |-> FALSE, pidfile |-> pf]
    ELSE IF pf = Garbage THEN [raised |-> TRUE, running |-> FALSE, pidfile |-> pf]
    ELSE IF Kill(pf, al, dn) = "OK"
         THEN [raised |-> FALSE, running |-> TRUE, pidfile |-> pf]
         ELSE [raised |-> FALSE, running |-> FALSE, pidfile |-> NoFile]

\* Exit codes of the uwsgi launch command
ExitCodes == {0, 1}

\* exec_command without the test of the exit code
exec_command_NoCheck(ret) == FALSE

\* ContextUtilsMixin.exec_command: TRUE when it raises WafError
exec_command(ret) == ret # 0

\* What the PID file names, as seen by the operating system
Classify(pf, al, dm, dn) ==
    IF pf = NoFile THEN "absent"
    ELSE IF pf = Garbage THEN "garbage"
    ELSE IF pf \notin al THEN "stale"
    ELSE IF pf \in dn THEN "denied"
    ELSE IF pf \in dm THEN "daemon"
    ELSE "foreign"

\* No pyenv_install call has been made
NoCall == [called |-> FALSE, force |-> FALSE, local_only |-> FALSE,
           cache_only_dir |-> "None", ran |-> FALSE, args |-> <<>>]

\* No setup or sdists command has been invoked
ToolIdle ==
    /\ tcmd = "none" /\ at = "idle" /\ log = <<>> /\ raised = "none"
    /\ inHook = FALSE /\ force = FALSE /\ oldForce = FALSE
    /\ installs = 0 /\ pip = NoCall

\* No process exists and no daemon command has been invoked
DaemonIdle ==
    /\ alive = {} /\ daemons = {} /\ denied = {} /\ quitting = {}
    /\ pc = "idle" /\ pid = 0
    /\ prev = <<"none", "none">>
    /\ cmd = "none" /\ pre = "none" /\ result = "none"
    /\ spawned = 0 /\ nquit = 0 /\ polls = 0 /\ spin = 0
    /\ launches = <<>>

Init ==
    /\ hooks = {} /\ ToolIdle
    /\ pidfile \in {NoFile, Garbage}
    /\ DaemonIdle

\* ./waf start without the early return when uwsgi is already running
Start_NoEarlyReturn ==
    /\ pc = "idle"
    /\ UNCHANGED toolVars
    /\ cmd' = "start"
    /\ pre' = Classify(pidfile, alive, daemons, denied)
    /\ prev' = <<cmd, result>>
    /\ UNCHANGED <<pc, pid, nquit, polls, spin, denied, quitting>>
    /\ LET r == _is_uwsgi_running(pidfile, alive, denied) IN
       IF r.raised
       THEN /\ result' = "ValueError"
            /\ spawned' = 0 /\ launches' = <<>>
            /\ UNCHANGED <<pidfile, alive, daemons>>
       ELSE \E ret \in ExitCodes :
               /\ launches' = <<ret>>
               /\ result' = IF exec_command(ret) THEN "WafError" ELSE "ok"
               /\ IF ret = 0
                  THEN \E p \in Pids \ alive :
                         /\ alive' = alive \cup {p}
                         /\ daemons' = daemons \cup {p}
                         /\ pidfile' = p
                         /\ spawned' = p
                  ELSE /\ spawned' = 0
                       /\ pidfile' = r.pidfile
                       /\ UNCHANGED <<alive, daemons>>

\* ./waf start
Start ==
    /\ pc = "idle"
    /\ UNCHANGED toolVars
    /\ cmd' = "start"
    /\ pre' = Classify(pidfile, alive, daemons, denied)
    /\ prev' = <<cmd, result>>
    /\ UNCHANGED <<pc, pid, nquit, polls, spin, denied, quitting>>
    /\ LET r == _is_uwsgi_running(pidfile, alive, denied) IN
       IF r.raised
       THEN /\ result' = "ValueError"
            /\ spawned' = 0 /\ launches' = <<>>
            /\ UNCHANGED <<pidfile, alive, daemons>>
       ELSE IF r.running
       THEN /\ result' = "ok - already running"
            /\ spawned' = 0 /\ launches' = <<>>
            /\ UNCHANGED <<pidfile, alive, daemons>>
       ELSE \E ret \in ExitCodes :
               /\ launches' = <<ret>>
               /\ result' = IF exec_command(ret) THEN "WafError" ELSE "ok"
               /\ IF ret = 0
                  THEN \E p \in Pids \ alive :
                         /\ alive' = alive \cup {p}
                         /\ daemons' = daemons \cup {p}
                         /\ pidfile' = p
                         /\ spawned' = p
                  ELSE /\ spawned' = 0
                       /\ pidfile' = r.pidfile
                       /\ UNCHANGED <<alive, daemons>>

\* the status query: a call of _is_uwsgi_running
Status ==
    /\ pc = "idle"
    /\ UNCHANGED toolVars
    /\ cmd' = "status"
    /\ pre' = Classify(pidfile, alive, daemons, denied)
    /\ prev' = <<cmd, result>>
    /\ spawned' = 0 /\ launches' = <<>>
    /\ UNCHANGED <<pc, pid, nquit, polls, spin, procs>>
    /\ LET r == _is_uwsgi_running(pidfile, alive, denied) IN
       /\ pidfile' = r.pidfile
       /\ result' = IF r.raised THEN "ValueError"
                    ELSE IF r.running THEN "Running" ELSE "Stopped"

\* ./waf stop with `if _is_uwsgi_running(self)` in place of `if not ...`
StopBegin_NoNot ==
    /\ pc = "idle"
    /\ UNCHANGED toolVars
    /\ cmd' = "stop"
    /\ pre' = Classify(pidfile, alive, daemons, denied)
    /\ prev' = <<cmd, result>>
    /\ spawned' = 0 /\ nquit' = 0 /\ polls' = 0 /\ spin' = 0
    /\ launches' = <<>>
    /\ UNCHANGED procs
    /\ LET r == _is_uwsgi_running(pidfile, alive, denied) IN
       /\ pidfile' = r.pidfile
       /\ IF r.raised
          THEN result' = "ValueError" /\ pid' = 0 /\ pc' = "idle"
          ELSE IF r.running
          THEN result' = "ok - not running" /\ pid' = 0 /\ pc' = "idle"
          ELSE result' = "pending" /\ pid' = pidfile /\ pc' = "signal"

\* ./waf stop, up to reading the PID
StopBegin ==
    /\ pc = "idle"
    /\ UNCHANGED toolVars
    /\ cmd' = "stop"
    /\ pre' = Classify(pidfile, alive, daemons, denied)
    /\ prev' = <<cmd, result>>
    /\ spawned' = 0 /\ nquit' = 0 /\ polls' = 0 /\ spin' = 0
    /\ launches' = <<>>
    /\ UNCHANGED procs
    /\ LET r == _is_uwsgi_running(pidfile, alive, denied) IN
       /\ pidfile' = r.pidfile
       /\ IF r.raised
          THEN result' = "ValueError" /\ pid' = 0 /\ pc' = "idle"
          ELSE IF ~r.running
          THEN result' = "ok - not running" /\ pid' = 0 /\ pc' = "idle"
          ELSE result' = "pending" /\ pid' = pidfile /\ pc' = "signal"

\* the except clause without os.unlink(pidfile)
StopExcept_NoUnlink ==
    /\ pidfile' = pidfile
    /\ result' = "ok"
    /\ pc' = "idle"

\* except OSError: remove the PID file if it is there, report ok
StopExcept ==
    /\ pidfile' = NoFile
    /\ result' = "ok"
    /\ pc' = "idle"

\* os.kill(pid, signal.SIGQUIT)
StopSignal ==
    /\ pc = "signal"
    /\ UNCHANGED toolVars
    /\ UNCHANGED <<pid, prev, cmd, pre, spawned, polls, spin, launches, alive, daemons, denied>>
    /\ IF Kill(pid, alive, denied) = "OK"
       THEN /\ quitting' = quitting \cup {pid}
            /\ nquit' = nquit + 1
            /\ pc' = "poll"
            /\ UNCHANGED <<pidfile, result>>
       ELSE /\ StopExcept
            /\ UNCHANGED <<quitting, nquit>>

\* the polling loop leaving after its first probe, whatever the probe found
StopPoll_NoWait ==
    /\ pc = "poll"
    /\ UNCHANGED toolVars
    /\ UNCHANGED <<pid, prev, cmd, pre, spawned, nquit, launches, procs>>
    /\ spin' = 1 - spin
    /\ polls' = IF Kill(pid, alive, denied) = "OK" /\ polls < MaxPolls
                THEN polls + 1 ELSE polls
    /\ StopExcept

\* one iteration of `while True: os.kill(pid, 0)`
StopPoll ==
    /\ pc = "poll"
    /\ UNCHANGED toolVars
    /\ UNCHANGED <<pid, prev, cmd, pre, spawned, nquit, launches, procs>>
    /\ spin' = 1 - spin
    /\ IF Kill(pid, alive, denied) = "OK"
       THEN /\ polls' = IF polls < MaxPolls THEN polls + 1 ELSE polls
            /\ UNCHANGED <<pidfile, result, pc>>
       ELSE /\ StopExcept
            /\ UNCHANGED polls

\* a process exits, on its own or after a signal
Die ==
    \E p \in alive :
        /\ alive' = alive \ {p}
        /\ daemons' = daemons \ {p}
        /\ denied' = denied \ {p}
        /\ quitting' = quitting \ {p}
        /\ UNCHANGED <<pidfile, pc, pid, prev, cmd, pre, result, spawned, nquit, polls, spin, launches>>
        /\ UNCHANGED toolVars

\* some other program starts and is given a free PID
ForeignStart ==
    \E p \in Pids \ alive, d \in BOOLEAN :
        /\ alive' = alive \cup {p}
        /\ denied' = IF d THEN denied \cup {p} ELSE denied
        /\ UNCHANGED <<daemons, quitting>>
        /\ UNCHANGED <<pidfile, pc, pid, prev, cmd, pre, result, spawned, nquit, polls, spin, launches>>
        /\ UNCHANGED toolVars

Next ==
    \/ Start
    \/ Status
    \/ StopBegin
    \/ StopSignal
    \/ StopPoll
    \/ Die
    \/ ForeignStart

Spec == Init /\ [][Next]_vars

\* The controller keeps running; the environment is under no obligation.
LiveSpec == Spec /\ WF_vars(StopSignal) /\ WF_vars(StopPoll)

TypeOK ==
    /\ pidfile \in Pids \cup {NoFile, Garbage}
    /\ alive \subseteq Pids /\ daemons \subseteq alive
    /\ denied \subseteq alive \ daemons /\ quitting \subseteq alive
    /\ pc \in {"idle", "signal", "poll"}
    /\ polls \in 0..MaxPolls /\ spin \in {0, 1}

(***************************************************************************)
(* The setup and sdists commands.  Each command is a fresh build context   *)
(* with a fresh PyenvData; every step may raise.  The setup_pip_hook       *)
(* callable is taken to do what its contract allows: calls of              *)
(* pyd.pyenv_install, with arguments of its choosing.                      *)
(***************************************************************************)
MaxInstalls == 2

HookNames == {"setup_pre_hook", "setup_pip_hook", "setup_post_hook"}

\* _sdists_dir(ctx): the name of the project's sdists directory
SdistsDir == ".sdists"

\* "--find-links=file://%s/%s" % (ctx.path.abspath(), _sdists_dir(ctx))
FindLinks == "--find-links=file:///top/.sdists"

\* Values of pyenv_install's cache_only_dir argument
CacheDirs == {"None", "", "/cache"}

\* Python's truth value of such an argument
Truthy(x) == x \notin {"None", ""}

\* pyenv_install without the `return` for calls that are not local_only
pyenv_install_NoReturn(frc, local_only, cache_only_dir) ==
    LET args0 == <<"pip", "install", "-r", "requirements">>
        cache == IF frc THEN SdistsDir ELSE cache_only_dir
        args1 == IF ~frc /\ local_only
                 THEN args0 \o <<"--no-index", FindLinks>> ELSE args0
        args2 == IF Truthy(cache) THEN args1 \o <<"-d", cache>> ELSE args1
    IN [ran |-> TRUE, args |-> args2]

\* PyenvData.pyenv_install: whether it runs pip, and with which arguments
pyenv_install(frc, local_only, cache_only_dir) ==
    LET args0 == <<"pip", "install", "-r", "requirements">>
        cache == IF frc THEN SdistsDir ELSE cache_only_dir
        args1 == IF ~frc /\ local_only
                 THEN args0 \o <<"--no-index", FindLinks>> ELSE args0
        args2 == IF Truthy(cache) THEN args1 \o <<"-d", cache>> ELSE args1
    IN IF frc /\ ~local_only
       THEN [ran |-> FALSE, args |-> <<>>]
       ELSE [ran |-> TRUE, args |-> args2]

\* SetupCommand with the post-hook called ahead of the pip-hook
SetupOrder_PostFirst ==
    <<"setup_pre_hook", "pyenv_create", "pyenv_add_src_pth",
      "_create_pylintrc", "setup_post_hook", "setup_pip_hook", "configure">>

\* The steps of SetupCommand.impl, then the configure step of execute
SetupOrder ==
    <<"setup_pre_hook", "pyenv_create", "pyenv_add_src_pth",
      "_create_pylintrc", "setup_pip_hook", "setup_post_hook", "configure">>

\* `if prehook:` and the like: a hook step runs only when it is defined
Runs(step) == step \notin HookNames \/ step \in hooks

\* The first step at or after position i that runs
StepFrom(i) ==
    LET later == {j \in DOMAIN SetupOrder : j >= i /\ Runs(SetupOrder[j])}
    IN IF later = {} THEN "done"
       ELSE SetupOrder[CHOOSE j \in later : \A k \in later : j <= k]

\* The step that follows `step`
After(step) ==
    StepFrom((CHOOSE i \in DOMAIN SetupOrder : SetupOrder[i] = step) + 1)

Finished == at \in {"idle", "done", "failed"}

\* ./waf setup: a new context, up to the first step of impl
SetupBegin ==
    /\ Finished
    /\ tcmd' = "setup"
    /\ at' = StepFrom(1)
    /\ log' = <<>> /\ raised' = "none"
    /\ inHook' = FALSE /\ force' = FALSE /\ oldForce' = FALSE
    /\ installs' = 0 /\ pip' = NoCall
    /\ UNCHANGED hooks
    /\ UNCHANGED daemonVars

\* One step of setup other than the pip hook: it returns or it raises
RunStep(step) ==
    /\ tcmd = "setup" /\ at = step /\ ~inHook
    /\ log' = Append(log, step)
    /\ \E ok \in BOOLEAN :
         IF ok THEN at' = After(step) /\ raised' = raised
               ELSE at' = "failed" /\ raised' = step
    /\ UNCHANGED <<hooks, tcmd, inHook, force, oldForce, installs, pip>>
    /\ UNCHANGED daemonVars

PreHook ==
    /\ at = "setup_pre_hook"
    /\ RunStep("setup_pre_hook")

PyenvCreate ==
    /\ at = "pyenv_create"
    /\ RunStep("pyenv_create")

AddSrcPth ==
    /\ at = "pyenv_add_src_pth"
    /\ RunStep("pyenv_add_src_pth")

CreatePylintrc ==
    /\ at = "_create_pylintrc"
    /\ RunStep("_create_pylintrc")

PostHook ==
    /\ at = "setup_post_hook"
    /\ RunStep("setup_post_hook")

Configure ==
    /\ at = "configure"
    /\ RunStep("configure")

\* setup calls piphook(self)
PipHookBegin ==
    /\ tcmd = "setup" /\ at = "setup_pip_hook" /\ ~inHook
    /\ log' = Append(log, "setup_pip_hook")
    /\ inHook' = TRUE
    /\ installs' = 0
    /\ UNCHANGED <<hooks, tcmd, at, raised, force, oldForce, pip>>
    /\ UNCHANGED daemonVars

\* SyncSdistsCommand.impl with the restoring assignment left out
PipHookReturn_NoRestore ==
    /\ inHook
    /\ inHook' = FALSE
    /\ IF tcmd = "setup"
       THEN at' = After("setup_pip_hook") /\ force' = force
       ELSE at' = "done" /\ force' = force
    /\ UNCHANGED <<hooks, tcmd, log, raised, oldForce, installs, pip>>
    /\ UNCHANGED daemonVars

\* the pip hook returns: setup goes on; sdists restores the force flag
PipHookReturn ==
    /\ inHook
    /\ inHook' = FALSE
    /\ IF tcmd = "setup"
       THEN at' = After("setup_pip_hook") /\ force' = force
       ELSE at' = "done" /\ force' = oldForce
    /\ UNCHANGED <<hooks, tcmd, log, raised, oldForce, installs, pip>>
    /\ UNCHANGED daemonVars

\* the pip hook raises
PipHookRaise ==
    /\ inHook
    /\ inHook' = FALSE
    /\ at' = "failed"
    /\ raised' = "setup_pip_hook"
    /\ UNCHANGED <<hooks, tcmd, log, force, oldForce, installs, pip>>
    /\ UNCHANGED daemonVars

\* the pip hook calls pyd.pyenv_install(requirements, ...)
PyenvInstall ==
    /\ inHook
    /\ installs < MaxInstalls
    /\ installs' = installs + 1
    /\ \E local_only \in BOOLEAN, cache_only_dir \in CacheDirs :
         LET r == pyenv_install(force, local_only, cache_only_dir) IN
         /\ pip' = [called |-> TRUE, force |-> force,
                    local_only |-> local_only,
                    cache_only_dir |-> cache_only_dir,
                    ran |-> r.ran, args |-> r.args]
         /\ \E ret \in IF r.ran THEN ExitCodes ELSE {0} :
              IF exec_command(ret)
              THEN inHook' = FALSE /\ at' = "failed"
                   /\ raised' = "setup_pip_hook"
              ELSE UNCHANGED <<inHook, at, raised>>
    /\ UNCHANGED <<hooks, tcmd, log, force, oldForce>>
    /\ UNCHANGED daemonVars

\* ./waf sdists: a new context, up to the call of the pip hook
SdistsBegin ==
    /\ Finished
    /\ tcmd' = "sdists"
    /\ installs' = 0 /\ pip' = NoCall
    /\ IF "setup_pip_hook" \notin hooks
       THEN /\ at' = "failed" /\ raised' = "sdists"
            /\ log' = <<>>
            /\ inHook' = FALSE /\ force' = FALSE /\ oldForce' = FALSE
       ELSE /\ at' = "setup_pip_hook" /\ raised' = "none"
            /\ log' = <<"setup_pip_hook">>
            /\ inHook' = TRUE /\ oldForce' = FALSE /\ force' = TRUE
    /\ UNCHANGED hooks
    /\ UNCHANGED daemonVars

ToolInit ==
    /\ hooks \in SUBSET HookNames
    /\ ToolIdle
    /\ pidfile = NoFile
    /\ DaemonIdle

ToolNext ==
    \/ SetupBegin
    \/ PreHook
    \/ PyenvCreate
    \/ AddSrcPth
    \/ CreatePylintrc
    \/ PipHookBegin
    \/ PyenvInstall
    \/ PipHookReturn
    \/ PipHookRaise
    \/ PostHook
    \/ Configure
    \/ SdistsBegin

ToolSpec == ToolInit /\ [][ToolNext]_vars

\* What a status query made in the primed state would report
RunningNext == _is_uwsgi_running(pidfile', alive', denied')

\* C1: at most one daemon launched by start is alive at any time; start
\* never launches uwsgi while a daemon it launched earlier is still alive.
C1_AtMostOneDaemon == Cardinality(daemons) <= 1

\* start was invoked while the daemon was alive and did not launch another
C1_Witness ==
    /\ cmd = "start" /\ pre = "daemon"
    /\ result = "ok - already running"
    /\ pidfile \in daemons

\* C2: a start that directly follows a successful start, the daemon still
\* alive, launches nothing: it reports "already running", the one recorded
\* PID is still that of the first launch, and status would report Running.
C2_SecondStartNoop ==
    [][ (Start /\ cmd = "start" /\ result = "ok" /\ spawned \in daemons)
        => /\ result' = "ok - already running"
           /\ spawned' = 0
           /\ alive' = alive /\ daemons' = daemons
           /\ pidfile' = spawned
           /\ RunningNext.running ]_vars

C2_Witness ==
    /\ prev = <<"start", "ok">>
    /\ cmd = "start" /\ result = "ok - already running"
    /\ spawned = 0 /\ pidfile \in daemons

C4_StatusSelfHeals ==
    [][ Status
        => /\ (pidfile \in Pids \ alive
                 => result' = "Stopped" /\ pidfile' = NoFile)
           /\ (pidfile = NoFile
                 => result' = "Stopped" /\ pidfile' = NoFile)
           /\ (pidfile \in alive \ denied
                 => result' = "Running" /\ pidfile' = pidfile
                    /\ UNCHANGED procs) ]_vars

C4_Witness ==
    /\ cmd = "status" /\ pre = "stale"
    /\ result = "Stopped" /\ pidfile = NoFile

\* C5: a stop that found the daemon running and delivered SIGQUIT to it
\* delivers it exactly once, and has returned only with "ok", the daemon
\* gone, and no PID file, so that status would report Stopped.
C5_StopWaitsForExit ==
    /\ (pc = "poll" => nquit = 1)
    /\ (cmd = "stop" /\ pc = "idle" /\ pre = "daemon" /\ nquit >= 1)
         => /\ result = "ok"
            /\ nquit = 1
            /\ pid \notin daemons
            /\ pidfile = NoFile
            /\ ~_is_uwsgi_running(pidfile, alive, denied).running

\* stop signalled the daemon, saw it alive at least once, then saw it gone
C5_Witness ==
    /\ cmd = "stop" /\ pc = "idle" /\ pre = "daemon"
    /\ nquit = 1 /\ polls >= 1 /\ result = "ok"
    /\ pidfile = NoFile /\ pid \notin alive

\* C6: stop with no PID file, or with one naming a process that does not
\* exist, reports "ok - not running", signals no process and leaves no
\* PID file.
C6_StopWhenStopped ==
    [][ (StopBegin /\ (pidfile = NoFile \/ pidfile \in Pids \ alive))
        => /\ result' = "ok - not running"
           /\ pc' = "idle"
           /\ pidfile' = NoFile
           /\ nquit' = 0
           /\ UNCHANGED procs ]_vars

C6_Witness ==
    /\ cmd = "stop" /\ pre = "stale" /\ pc = "idle"
    /\ result = "ok - not running" /\ pidfile = NoFile /\ nquit = 0

\* C7: the PID file is never removed while the process it names exists.
C7_NoRemovalWhileAlive ==
    [][ (pidfile \in Pids /\ pidfile' = NoFile) => pidfile \notin alive ]_vars

\* C8: when the recorded process exists but may not be signalled, status,
\* start and stop raise the OSError: the PID file is kept and nothing is
\* launched.
C8_PermissionDeniedSurfaces ==
    [][ ((Start \/ Status \/ StopBegin) /\ pidfile \in denied)
        => /\ result' = "OSError"
           /\ pidfile' = pidfile
           /\ daemons' = daemons ]_vars

\* C9: once Timeout probes after SIGQUIT have found the process, stop has
\* failed with ShutdownTimeout and the PID file still names the process.
C9_StopTimesOut ==
    polls >= Timeout
        => pc = "idle" /\ result = "ShutdownTimeout" /\ pidfile = pid

\* C10: every stop that is under way eventually returns.
C10_StopReturns == (pc # "idle") ~> (pc = "idle")

\* C11: with a PID file whose content int() rejects, status, start and stop
\* each end in the ValueError; the file is not taken for a missing one, no
\* process is signalled or launched, and the PID file stays as it is.
C11_GarbageRaises ==
    [][ ((Start \/ Status \/ StopBegin) /\ pidfile = Garbage)
        => /\ result' = "ValueError"
           /\ pc' = "idle"
           /\ pidfile' = Garbage
           /\ launches' = <<>> /\ spawned' = 0 /\ nquit' = 0
           /\ UNCHANGED procs ]_vars

\* start and then stop have both failed on the unreadable PID file
C11_Witness ==
    /\ prev = <<"start", "ValueError">>
    /\ cmd = "stop" /\ pre = "garbage" /\ result = "ValueError"
    /\ pidfile = Garbage /\ pc = "idle"

\* C12: start on a PID file naming a process that does not exist reports no
\* error for the stale record, runs the launch command exactly once, and
\* ends as a start with no PID file does: on "ok" the file names the daemon
\* just launched, on a failed launch there is no file.
C12_StartOnStale ==
    [][ (Start /\ pidfile \in Pids \ alive)
        => /\ Len(launches') = 1
           /\ result' = (IF launches'[1] = 0 THEN "ok" ELSE "WafError")
           /\ (result' = "ok"
                 => /\ spawned' \in Pids \ alive
                    /\ daemons' = daemons \cup {spawned'}
                    /\ pidfile' = spawned')
           /\ (result' = "WafError"
                 => pidfile' = NoFile /\ daemons' = daemons)
           /\ pidfile' \in daemons' \cup {NoFile} ]_vars

C12_Witness ==
    /\ cmd = "start" /\ pre = "stale" /\ result = "ok"
    /\ Len(launches) = 1
    /\ pidfile = spawned /\ spawned \in daemons

\* C13: when the launch command exits non-zero, start ends in the WafError,
\* no daemon and no PID record come of it, and a status query made at once
\* reports Stopped.
C13_SpawnFailureSurfaces ==
    [][ (Start /\ launches' # <<>> /\ launches'[1] # 0)
        => /\ result' = "WafError"
           /\ spawned' = 0
           /\ pidfile' = NoFile
           /\ alive' = alive /\ daemons' = daemons
           /\ ~RunningNext.raised /\ ~RunningNext.running ]_vars

C13_Witness ==
    /\ cmd = "start" /\ pre = "absent" /\ result = "WafError"
    /\ launches = <<1>> /\ pidfile = NoFile /\ spawned = 0

\* C16: when the daemon has died on its own, stop succeeds and leaves no PID
\* file, wherever the death fell: before the liveness check stop reports
\* "ok - not running"; after it, the next signal or probe stop sends ends
\* stop with "ok".  While the PID stays unused such a stop does return.
C16_StopSurvivesDeath ==
    /\ [][ /\ (StopBegin /\ pidfile \in Pids \ alive)
                => /\ result' = "ok - not running"
                   /\ pc' = "idle" /\ pidfile' = NoFile
           /\ ((StopSignal \/ StopPoll) /\ pid \notin alive)
                => /\ result' = "ok"
                   /\ pc' = "idle" /\ pidfile' = NoFile ]_vars
    /\ (pc # "idle" /\ pid \notin alive) ~> (pc = "idle" \/ pid \in alive)

\* the daemon died between the liveness check and the SIGQUIT
C16_Witness ==
    /\ cmd = "stop" /\ pre = "daemon" /\ pc = "idle"
    /\ nquit = 0 /\ polls = 0 /\ result = "ok"
    /\ pidfile = NoFile /\ pid \notin alive

\* The place of a step in the documented order of setup
Rank(step) ==
    CASE step = "setup_pre_hook" -> 1
      [] step = "pyenv_create" -> 2
      [] step = "pyenv_add_src_pth" -> 3
      [] step = "_create_pylintrc" -> 4
      [] step = "setup_pip_hook" -> 5
      [] step = "setup_post_hook" -> 6
      [] step = "configure" -> 7

StepNames ==
    {"setup_pre_hook", "pyenv_create", "pyenv_add_src_pth",
     "_create_pylintrc", "setup_pip_hook", "setup_post_hook", "configure"}

\* C14: setup runs its steps in the fixed order pre-hook, virtualenv, pth
\* file, pylintrc, pip-hook, post-hook, configure; a hook runs only if it is
\* defined; a step runs only after every earlier step that is due has run;
\* and once a step has raised no further step runs.
C14_SetupOrder ==
    tcmd = "setup" =>
      /\ \A i, j \in DOMAIN log : i < j => Rank(log[i]) < Rank(log[j])
      /\ \A i \in DOMAIN log : log[i] \in HookNames => log[i] \in hooks
      /\ \A i \in DOMAIN log, n \in StepNames :
           (Rank(n) < Rank(log[i]) /\ (n \notin HookNames \/ n \in hooks))
             => \E k \in 1..(i - 1) : log[k] = n
      /\ raised # "none"
           => at = "failed" /\ log # <<>> /\ log[Len(log)] = raised
      /\ at = "done" => raised = "none" /\ log[Len(log)] = "configure"

\* a setup with all three hooks defined has run through configure
C14_Witness ==
    /\ tcmd = "setup" /\ hooks = HookNames /\ at = "done"
    /\ Len(log) = 7 /\ raised = "none"

HasFlag(args, f) == \E i \in DOMAIN args : args[i] = f

HasOption(args, f, v) ==
    \E i \in 1..(Len(args) - 1) : args[i] = f /\ args[i + 1] = v

\* C15: pyenv_install runs no pip command when the force flag is set and
\* local_only is false; with the flag set and local_only true it runs pip
\* with -d <sdists dir> and without --no-index; with the flag clear and
\* local_only true it runs pip with --no-index and --find-links to the
\* project sdists directory; -d <dir> is passed exactly when a cache-only
\* directory is in effect.  sdists holds the flag true while the pip hook
\* runs and has put the former value back when the hook has returned.
C15_PipInvocation ==
    /\ pip.called =>
         LET inEffect == IF pip.force THEN SdistsDir
                         ELSE IF Truthy(pip.cache_only_dir)
                              THEN pip.cache_only_dir ELSE "None"
         IN
         /\ (pip.force /\ ~pip.local_only) => ~pip.ran /\ pip.args = <<>>
         /\ (pip.force /\ pip.local_only)
              => /\ pip.ran
                 /\ HasOption(pip.args, "-d", SdistsDir)
                 /\ ~HasFlag(pip.args, "--no-index")
         /\ (~pip.force /\ pip.local_only)
              => /\ pip.ran
                 /\ HasFlag(pip.args, "--no-index")
                 /\ HasFlag(pip.args, FindLinks)
         /\ ~pip.local_only => ~HasFlag(pip.args, "--no-index")
         /\ pip.ran => /\ HasFlag(pip.args, "-d") <=> inEffect # "None"
                       /\ inEffect # "None"
                            => HasOption(pip.args, "-d", inEffect)
         /\ pip.force <=> tcmd = "sdists"
    /\ (tcmd = "sdists" /\ inHook) => force
    /\ (tcmd = "sdists" /\ at = "done") => force = oldForce /\ ~force

\* sdists has finished; its hook's last install ran pip into the sdists dir
C15_Witness ==
    /\ tcmd = "sdists" /\ at = "done" /\ ~force
    /\ pip.called /\ pip.force /\ pip.local_only /\ pip.ran
    /\ HasOption(pip.args, "-d", SdistsDir)
====
